---- MODULE Spec2Model ----
(***************************************************************************)
(* A model of yasmin's ActionState (yasmin_ros/action_state.py), the state *)
(* that blocks its caller on a ROS 2 action, and of the FOO/BAR demo       *)
(* machine (yasmin_demos/yasmin_demo.py).                                  *)
(*                                                                         *)
(* Threads of the ActionState part:                                        *)
(*   - the executing thread, which runs execute() line by line (pc);       *)
(*   - the transport's executor, which resolves the two futures and runs   *)
(*     _goal_response_callback, _get_result_callback and the feedback      *)
(*     callback;                                                           *)
(*   - any other thread, which may call cancel_state() at any moment.      *)
(*                                                                         *)
(* The two source files are two programs: a behaviour exercises one of     *)
(* them (program), the ActionState or the demo's main().  The StateMachine *)
(* class the demo runs is not among the sources; its loop follows the      *)
(* design document.                                                        *)
(***************************************************************************)
EXTENDS Integers, Sequences, FiniteSets, TLC

(* ------------------------------ bounds --------------------------------- *)
\* number of execute() calls made on the one ActionState instance
MaxExec == 2
\* number of cancel_state() calls made on it
MaxCancels == 2
\* number of feedback messages the transport delivers
MaxFeedback == 1
\* number of times the demo machine is run
MaxRuns == 2

(* ------------------------- program constants --------------------------- *)
\* yasmin_ros.basic_outcomes
SUCCEED == "succeeded"
ABORT == "aborted"
CANCEL == "canceled"
TIMEOUT == "timeout"

\* action_msgs.msg.GoalStatus values the code compares against, and one of
\* the values it does not name
STATUS_UNKNOWN == "STATUS_UNKNOWN"
STATUS_SUCCEEDED == "STATUS_SUCCEEDED"
STATUS_CANCELED == "STATUS_CANCELED"
STATUS_ABORTED == "STATUS_ABORTED"
GoalStatus == {STATUS_UNKNOWN, STATUS_SUCCEEDED, STATUS_CANCELED, STATUS_ABORTED}

\* Python's None (the default of timeout, outcomes and the optional handlers)
None == "None"
\* timeout=None is kept apart from the numbers: NoTimeout stands for it
NoTimeout == -1
\* an attribute that is only annotated in the class body and never assigned:
\* reading it raises AttributeError
Unset == "<unset>"
\* the same for _goal_handle, whose other values are goal ids 1, 2, ...
NoHandle == 0
\* what execute() leaves its caller with when an exception propagates
Raised == "<exception>"
\* execute() has not returned (yet)
NoOutcome == "<none>"

(* --------------------------- sample inputs ----------------------------- *)
\* timeout argument: unset, zero, positive
Timeouts == {NoTimeout, 0, 2}
\* outcomes argument (a list, concatenated to the basic ones)
ExtraOutcomes == {<<>>, <<"extra">>}
\* create_goal_handler argument
GoalHandlers == {None, "goal", "goal_raises"}
\* result_handler argument
ResultHandlers == {None, "by_result", "result_raises"}
\* feedback_handler argument
FeedbackHandlers == {None, "feedback"}
\* result payloads the action server may send: the result of goal n is n
ResultPayloads == 1..MaxExec

\* The sample result handlers, as functions of the raw result: one answers
\* with a basic outcome chosen by the payload, the other raises.
ApplyResultHandler(h, r) ==
    CASE h = "by_result" ->
            (CASE r = 1 -> CANCEL [] r = 2 -> TIMEOUT [] OTHER -> SUCCEED)
      [] OTHER -> Raised

\* Python truthiness of the timeout: None and 0 are falsy.
Truthy(t) == t # NoTimeout /\ t # 0

Range(s) == {s[i] : i \in 1..Len(s)}

VARIABLES
    program,              \* what is exercised: "action_state" (one
                          \* ActionState), "yasmin_demo", or "two_states"
                          \* (two ActionState objects on two threads)
    peer,                 \* the second ActionState object: its position,
                          \* futures and instance attributes
    \* ---- ActionState instance ----
    ctor,                 \* "new" | "ok" | "raised": how __init__ ended
    outcomes,             \* the declared outcome set (State.__init__)
    timeout,              \* _timeout
    create_goal_handler,  \* _create_goal_handler
    result_handler,       \* _result_handler
    feedback_handler,     \* _feedback_handler
    action_done_event,    \* _action_done_event (TRUE = set)
    action_result,        \* _action_result
    action_status,        \* _action_status
    goal_handle,          \* _goal_handle: NoHandle, or the id of a goal
    \* ---- executing thread ----
    pc,                   \* position inside execute(), "idle" outside it
    execN,                \* number of execute() calls so far; the goal a
                          \* call submits carries this number as its id
    outcome,              \* what the last execute() call returned
    \* ---- transport ----
    send_goal_future,     \* future returned by send_goal_async
    get_result_future,    \* future returned by get_result_async
    \* ---- history ----
    submitted,            \* send_goal_async was called by the current call
    cb_raised,            \* a done-callback of the current goal raised
    set_count,            \* calls of Event.set() during the current call
    fb_calls,             \* invocations of the user feedback handler
    fb_msgs,              \* feedback messages delivered
    fb_blackboard,        \* call whose blackboard the feedback function got
    unlocked_writes,      \* result or status was stored without the lock
    cancels_sent,         \* cancel_goal() requests received, per goal id
    cancel_errors,        \* cancel_state() calls that raised
    early_cancel,         \* cancel_state() was called during the current
                          \* call between send_goal_async and the moment
                          \* the goal handle was recorded
    \* ---- demo machine ----
    sm_pc,                \* "new" | "ready" | "execute" | "transition" |
                          \* "done" | "raised"
    sm_current,           \* name of the active state
    sm_last,              \* outcome the active state returned
    sm_outcome,           \* outcome the machine returned
    sm_runs,              \* runs of the machine started so far
    counter,              \* FooState.counter
    blackboard,           \* the run's blackboard: key -> value
    trace,                \* names of the states executed in this run
    bar_log,              \* what BarState logged in this run
    foo_calls             \* FooState.execute invocations since construction

vars == <<program, peer, ctor, outcomes, timeout, create_goal_handler,
          result_handler, feedback_handler, action_done_event, action_result,
          action_status, goal_handle, pc, execN, outcome, send_goal_future,
          get_result_future, submitted, cb_raised, set_count,
          fb_calls, fb_msgs, fb_blackboard, unlocked_writes,
          cancels_sent, cancel_errors, early_cancel,
          sm_pc, sm_current, sm_last, sm_outcome, sm_runs, counter,
          blackboard, trace, bar_log, foo_calls>>

demoVars == <<sm_pc, sm_current, sm_last, sm_outcome, sm_runs, counter,
              blackboard, trace, bar_log, foo_calls>>

cancelVars == <<cancels_sent, cancel_errors, early_cancel>>

instVars == <<ctor, outcomes, timeout, create_goal_handler, result_handler,
              feedback_handler>>
sharedVars == <<action_done_event, action_result, action_status, goal_handle>>
transportVars == <<send_goal_future, get_result_future>>

(* ------------------------------ Init ----------------------------------- *)
\* Before __init__ runs.  The Event is a class attribute created with the
\* class: it exists, unset.  _goal_handle, _action_result and _action_status
\* are annotations only.
\* The second object before its first execute(): nothing assigned yet.
PeerInit ==
    [pc |-> "idle", execN |-> 0, outcome |-> NoOutcome,
     send_goal_future |-> "none", get_result_future |-> "none",
     action_result |-> Unset, action_status |-> Unset, goal_handle |-> NoHandle]

Init ==
    /\ program \in {"action_state", "yasmin_demo"}
    /\ peer = PeerInit
    /\ ctor = "new"
    /\ outcomes = {}
    /\ timeout = NoTimeout
    /\ create_goal_handler = None
    /\ result_handler = None
    /\ feedback_handler = None
    /\ action_done_event = FALSE
    /\ action_result = Unset
    /\ action_status = Unset
    /\ goal_handle = NoHandle
    /\ pc = "idle"
    /\ execN = 0
    /\ outcome = NoOutcome
    /\ send_goal_future = "none"
    /\ get_result_future = "none"
    /\ submitted = FALSE
    /\ cb_raised = FALSE
    /\ set_count = 0
    /\ fb_calls = 0
    /\ fb_msgs = 0
    /\ fb_blackboard = 0
    /\ unlocked_writes = FALSE
    /\ cancels_sent = [h \in 1..MaxExec |-> 0]
    /\ cancel_errors = 0
    /\ early_cancel = FALSE
    /\ sm_pc = "new"
    /\ sm_current = None
    /\ sm_last = NoOutcome
    /\ sm_outcome = NoOutcome
    /\ sm_runs = 0
    /\ counter = 0
    /\ blackboard = [k \in {} |-> Unset]
    /\ trace = <<>>
    /\ bar_log = <<>>
    /\ foo_calls = 0

(* ---------------------------- __init__ --------------------------------- *)
\* The list of outcomes __init__ builds (lines 100-107).
DeclaredOutcomes(t, extra) ==
    {SUCCEED, ABORT, CANCEL}
        \cup (IF Truthy(t) THEN {TIMEOUT} ELSE {})
        \cup Range(extra)

\* __init__ without the check of create_goal_handler
Construct_NoCheck(t, extra, cgh, rh, fh) ==
    /\ program = "action_state"
    /\ ctor = "new"
    /\ timeout' = t
    /\ create_goal_handler' = cgh
    /\ result_handler' = rh
    /\ feedback_handler' = fh
    /\ ctor' = "ok"
    /\ outcomes' = DeclaredOutcomes(t, extra)
    /\ UNCHANGED <<program, peer, unlocked_writes, demoVars, sharedVars, pc,
                   execN, outcome, transportVars, submitted, cb_raised,
                   set_count, fb_calls, fb_msgs, fb_blackboard, cancelVars>>

Construct(t, extra, cgh, rh, fh) ==
    /\ program = "action_state"
    /\ ctor = "new"
    /\ timeout' = t
    /\ create_goal_handler' = cgh
    /\ result_handler' = rh
    /\ feedback_handler' = fh
    /\ IF cgh = None
         THEN \* ValueError, raised before State.__init__ is reached
              /\ ctor' = "raised"
              /\ outcomes' = outcomes
         ELSE /\ ctor' = "ok"
              /\ outcomes' = DeclaredOutcomes(t, extra)
    /\ UNCHANGED <<program, peer, unlocked_writes, demoVars, sharedVars, pc,
                   execN, outcome, transportVars, submitted, cb_raised,
                   set_count, fb_calls, fb_msgs, fb_blackboard, cancelVars>>

(* ----------------------------- execute() ------------------------------- *)
\* line 158: goal = self._create_goal_handler(blackboard)
ExecuteCall ==
    /\ ctor = "ok"
    /\ pc = "idle"
    /\ execN < MaxExec
    /\ execN' = execN + 1
    /\ submitted' = FALSE
    /\ cb_raised' = FALSE
    /\ set_count' = 0
    /\ send_goal_future' = "none"
    /\ get_result_future' = "none"
    /\ IF create_goal_handler = "goal_raises"
         THEN \* no try/except around the call: the exception leaves execute
              /\ pc' = "idle"
              /\ outcome' = Raised
         ELSE /\ pc' = "wait_for_server"
              /\ outcome' = NoOutcome
    /\ early_cancel' = FALSE
    /\ UNCHANGED <<program, peer, unlocked_writes, demoVars, instVars,
                   sharedVars, fb_calls, fb_msgs, fb_blackboard, cancels_sent,
                   cancel_errors>>

\* WaitForServer with the event cleared before the availability check
WaitForServer_ClearsFirst(act_available) ==
    /\ pc = "wait_for_server"
    /\ (~act_available) => timeout # NoTimeout
    /\ action_done_event' = FALSE
    /\ IF act_available
         THEN /\ pc' = "clear"
              /\ outcome' = outcome
         ELSE /\ pc' = "idle"
              /\ outcome' = TIMEOUT
    /\ UNCHANGED <<program, peer, unlocked_writes, demoVars, instVars,
                   action_result, action_status, goal_handle, execN,
                   transportVars, submitted, cb_raised, set_count, fb_calls,
                   fb_msgs, fb_blackboard, cancelVars>>

\* lines 161-167: wait_for_server(self._timeout).  With timeout None the call
\* only returns once the server is there; with a number it may give up.
WaitForServer(act_available) ==
    /\ pc = "wait_for_server"
    /\ (~act_available) => timeout # NoTimeout
    /\ IF act_available
         THEN /\ pc' = "clear"
              /\ outcome' = outcome
         ELSE /\ pc' = "idle"
              /\ outcome' = TIMEOUT
    /\ UNCHANGED <<program, peer, unlocked_writes, demoVars, instVars,
                   sharedVars, execN, transportVars, submitted, cb_raised,
                   set_count, fb_calls, fb_msgs, fb_blackboard, cancelVars>>

\* line 169: self._action_done_event.clear()
ClearEvent ==
    /\ pc = "clear"
    /\ action_done_event' = FALSE
    /\ pc' = "send"
    /\ UNCHANGED <<program, peer, unlocked_writes, demoVars, instVars,
                   action_result, action_status, goal_handle, execN, outcome,
                   transportVars, submitted, cb_raised, set_count, fb_calls,
                   fb_msgs, fb_blackboard, cancelVars>>

\* lines 177-180: send_goal_async and add_done_callback
SendGoal ==
    /\ pc = "send"
    /\ send_goal_future' = "pending"
    /\ submitted' = TRUE
    /\ pc' = "waiting"
    /\ UNCHANGED <<program, peer, unlocked_writes, demoVars, instVars,
                   sharedVars, execN, outcome, get_result_future, cb_raised,
                   set_count, fb_calls, fb_msgs, fb_blackboard, cancelVars>>

\* line 183: self._action_done_event.wait()
EventWait ==
    /\ pc = "waiting"
    /\ action_done_event
    /\ pc' = "map"
    /\ UNCHANGED <<program, peer, unlocked_writes, demoVars, instVars,
                   sharedVars, execN, outcome, transportVars, submitted,
                   cb_raised, set_count, fb_calls, fb_msgs, fb_blackboard,
                   cancelVars>>

\* StatusOutcome with the final "return ABORT" turned into SUCCEED
StatusOutcome_ElseSucceed(status, rh, result) ==
    CASE status = Unset -> Raised
      [] status = STATUS_CANCELED -> CANCEL
      [] status = STATUS_ABORTED -> ABORT
      [] status = STATUS_SUCCEEDED ->
            (IF rh # None THEN ApplyResultHandler(rh, result) ELSE SUCCEED)
      [] OTHER -> SUCCEED

\* lines 185-197: the value execute returns for a status (Raised when reading
\* an unassigned attribute or when the user's result handler raises)
StatusOutcome(status, rh, result) ==
    CASE status = Unset -> Raised
      [] status = STATUS_CANCELED -> CANCEL
      [] status = STATUS_ABORTED -> ABORT
      [] status = STATUS_SUCCEEDED ->
            (IF rh # None THEN ApplyResultHandler(rh, result) ELSE SUCCEED)
      [] OTHER -> ABORT

MapStatus ==
    /\ pc = "map"
    /\ outcome' = StatusOutcome(action_status, result_handler, action_result)
    /\ pc' = "idle"
    /\ UNCHANGED <<program, peer, unlocked_writes, demoVars, instVars,
                   sharedVars, execN, transportVars, submitted, cb_raised,
                   set_count, fb_calls, fb_msgs, fb_blackboard, cancelVars>>

(* ------------------- transport and its callbacks ----------------------- *)
\* The action server answers the goal request: it accepts the goal, rejects
\* it, or the future completes with an exception.
GoalResponses == {"accepted", "rejected", "exception"}

TransportGoalResponse(r) ==
    /\ send_goal_future = "pending"
    /\ send_goal_future' = r
    /\ UNCHANGED <<program, peer, unlocked_writes, demoVars, instVars,
                   sharedVars, pc, execN, outcome, get_result_future,
                   submitted, cb_raised, set_count, fb_calls, fb_msgs,
                   fb_blackboard, cancelVars>>

\* lines 199-211, run by the executor once the send-goal future is done.  A
\* rejected goal still yields a handle (accepted = False), which the code
\* does not look at.
GoalResponseCallback ==
    /\ send_goal_future \in GoalResponses
    /\ get_result_future = "none"
    /\ ~cb_raised
    /\ IF send_goal_future = "exception"
         THEN \* future.result() re-raises; the with block releases the lock
              /\ cb_raised' = TRUE
              /\ UNCHANGED <<goal_handle, get_result_future>>
         ELSE /\ goal_handle' = execN
              /\ get_result_future' = "pending"
              /\ cb_raised' = cb_raised
    /\ UNCHANGED <<program, peer, unlocked_writes, demoVars, instVars,
                   action_done_event, action_result, action_status, pc, execN,
                   outcome, send_goal_future, submitted, set_count, fb_calls,
                   fb_msgs, fb_blackboard, cancelVars>>

\* The result request is answered: with a status and a payload, or the
\* future completes with an exception.  For a goal the server never accepted
\* it has no terminal state to report.
ResultStatuses ==
    IF send_goal_future = "rejected" THEN {STATUS_UNKNOWN} ELSE GoalStatus

TransportResult(s) ==
    /\ get_result_future = "pending"
    /\ s \in ResultStatuses \cup {"exception"}
    /\ get_result_future' = s
    /\ UNCHANGED <<program, peer, unlocked_writes, demoVars, instVars,
                   sharedVars, pc, execN, outcome, send_goal_future,
                   submitted, cb_raised, set_count, fb_calls, fb_msgs,
                   fb_blackboard, cancelVars>>

\* lines 213-224, run by the executor once the result future is done.  The
\* body has no "with self._goal_handle_lock": lines 222-223 store the result
\* and the status without holding the lock.
GetResultCallback ==
    /\ get_result_future \in GoalStatus \cup {"exception"}
    /\ get_result_future' = "handled"
    /\ IF get_result_future = "exception"
         THEN \* line 222 raises: nothing is stored, the event is not set
              /\ cb_raised' = TRUE
              /\ UNCHANGED <<action_result, action_status, action_done_event,
                             set_count, unlocked_writes>>
         ELSE \* the result goal execN's future carries
              /\ action_result' = execN
              /\ action_status' = get_result_future
              /\ unlocked_writes' = TRUE
              /\ action_done_event' = TRUE
              /\ set_count' = set_count + 1
              /\ cb_raised' = cb_raised
    /\ UNCHANGED <<program, peer, demoVars, instVars, goal_handle, pc, execN,
                   outcome, send_goal_future, submitted, fb_calls, fb_msgs,
                   fb_blackboard, cancelVars>>

\* the feedback closure without the test of self._feedback_handler
FeedbackCallback_NoNoneTest ==
    /\ send_goal_future = "accepted"
    /\ get_result_future \in {"none", "pending"}
    /\ fb_msgs < MaxFeedback
    /\ fb_msgs' = fb_msgs + 1
    /\ fb_calls' = fb_calls + 1
    /\ fb_blackboard' = execN
    /\ UNCHANGED <<program, peer, unlocked_writes, demoVars, instVars,
                   sharedVars, pc, execN, outcome, transportVars, submitted,
                   cb_raised, set_count, cancelVars>>

\* lines 173-175: the feedback closure registered with send_goal_async; the
\* transport calls it for an accepted goal that has not reached its result.
\* The closure holds the blackboard execute() was called with, call execN's.
FeedbackCallback ==
    /\ send_goal_future = "accepted"
    /\ get_result_future \in {"none", "pending"}
    /\ fb_msgs < MaxFeedback
    /\ fb_msgs' = fb_msgs + 1
    /\ IF feedback_handler # None
         THEN /\ fb_calls' = fb_calls + 1
              /\ fb_blackboard' = execN
         ELSE UNCHANGED <<fb_calls, fb_blackboard>>
    /\ UNCHANGED <<program, peer, unlocked_writes, demoVars, instVars,
                   sharedVars, pc, execN, outcome, transportVars, submitted,
                   cb_raised, set_count, cancelVars>>

(* --------------------------- cancel_state() ---------------------------- *)
\* Where the current execute() call stands.
Phase ==
    CASE pc = "idle" /\ execN = 0 -> "never_executed"
      [] pc = "idle" /\ execN > 0 -> "returned"
      [] pc \in {"wait_for_server", "clear", "send"} -> "before_submit"
      [] get_result_future = "handled" /\ ~cb_raised -> "completed"
      [] get_result_future \in {"pending"} \cup GoalStatus \cup {"exception"}
            -> "accepted"
      [] cb_raised -> "failed"
      [] OTHER -> "submitted"

RECURSIVE SumTo(_, _)
SumTo(f, n) == IF n = 0 THEN 0 ELSE f[n] + SumTo(f, n - 1)

\* number of cancel_state() calls made so far
CancelCalls == cancel_errors + SumTo(cancels_sent, MaxExec)

\* CancelState that also ends the wait of execute(), as a canceled goal
CancelState_Completes ==
    /\ ctor = "ok"
    /\ CancelCalls < MaxCancels
    /\ early_cancel' = (early_cancel \/ Phase = "submitted")
    /\ IF goal_handle = NoHandle
         THEN /\ cancel_errors' = cancel_errors + 1
              /\ UNCHANGED <<cancels_sent, action_status, action_done_event>>
         ELSE /\ cancels_sent' =
                    [cancels_sent EXCEPT ![goal_handle] = @ + 1]
              /\ cancel_errors' = cancel_errors
              /\ action_status' = STATUS_CANCELED
              /\ action_done_event' = TRUE
    /\ UNCHANGED <<program, peer, unlocked_writes, demoVars, instVars,
                   action_result, goal_handle, pc, execN, outcome,
                   transportVars, submitted, cb_raised, set_count, fb_calls,
                   fb_msgs, fb_blackboard>>

\* CancelState that never reaches cancel_goal()
CancelState_NoForward ==
    /\ ctor = "ok"
    /\ CancelCalls < MaxCancels
    /\ early_cancel' = (early_cancel \/ Phase = "submitted")
    /\ cancel_errors' = cancel_errors + 1
    /\ UNCHANGED <<program, peer, unlocked_writes, demoVars, instVars,
                   sharedVars, pc, execN, outcome, transportVars, submitted,
                   cb_raised, set_count, fb_calls, fb_msgs, fb_blackboard,
                   cancels_sent>>

\* lines 130-140.  The lock makes lines 137-138 one step with respect to
\* _goal_response_callback, the only writer of _goal_handle.
CancelState ==
    /\ ctor = "ok"
    /\ CancelCalls < MaxCancels
    /\ early_cancel' = (early_cancel \/ Phase = "submitted")
    /\ IF goal_handle = NoHandle
         THEN \* AttributeError at line 137; line 140 is not reached
              /\ cancel_errors' = cancel_errors + 1
              /\ UNCHANGED cancels_sent
         ELSE \* the handle is never None once assigned: cancel_goal(),
              \* then the base class's bookkeeping (line 140)
              /\ cancels_sent' =
                    [cancels_sent EXCEPT ![goal_handle] = @ + 1]
              /\ cancel_errors' = cancel_errors
    /\ UNCHANGED <<program, peer, unlocked_writes, demoVars, instVars,
                   sharedVars, pc, execN, outcome, transportVars, submitted,
                   cb_raised, set_count, fb_calls, fb_msgs, fb_blackboard>>

(* ---------------------- a second ActionState --------------------------- *)
\* The same methods run on a second object by a second thread.  Lines 57 and
\* 63 create the Event and the RLock in the class body, and no method
\* assigns self._action_done_event or self._goal_handle_lock: both objects
\* use the one Event (action_done_event) and the one RLock.  _goal_handle,
\* _action_result and _action_status are assigned through self and are the
\* object's own.  The second object has no timeout and no user handlers
\* other than create_goal_handler, and its server is available and accepts.
peerFrame == <<program, unlocked_writes, demoVars, instVars, action_result,
               action_status, goal_handle, pc, execN, outcome, transportVars,
               submitted, cb_raised, set_count, fb_calls, fb_msgs,
               fb_blackboard, cancelVars>>

\* terminal statuses the second object's goals end with
PeerStatuses == {STATUS_SUCCEEDED, STATUS_ABORTED}

\* lines 158-167: the goal is created and the server is there
PeerExecuteCall ==
    /\ program = "two_states"
    /\ peer.pc = "idle"
    /\ peer.execN < MaxExec
    /\ peer' = [peer EXCEPT !.pc = "clear", !.execN = @ + 1,
                            !.outcome = NoOutcome,
                            !.send_goal_future = "none",
                            !.get_result_future = "none"]
    /\ UNCHANGED <<peerFrame, action_done_event>>

\* line 169, on the Event of the class
PeerClearEvent ==
    /\ peer.pc = "clear"
    /\ action_done_event' = FALSE
    /\ peer' = [peer EXCEPT !.pc = "send"]
    /\ UNCHANGED peerFrame

\* lines 177-180
PeerSendGoal ==
    /\ peer.pc = "send"
    /\ peer' = [peer EXCEPT !.pc = "waiting", !.send_goal_future = "accepted"]
    /\ UNCHANGED <<peerFrame, action_done_event>>

\* lines 199-211, for the accepted goal
PeerGoalResponseCallback ==
    /\ peer.send_goal_future = "accepted"
    /\ peer.get_result_future = "none"
    /\ peer' = [peer EXCEPT !.goal_handle = peer.execN,
                            !.get_result_future = "pending"]
    /\ UNCHANGED <<peerFrame, action_done_event>>

\* lines 213-224, once the goal ended with status s: the second object's
\* result and status, and set() on the Event of the class
PeerGetResultCallback(s) ==
    /\ peer.get_result_future = "pending"
    /\ peer' = [peer EXCEPT !.get_result_future = "handled",
                            !.action_result = peer.execN,
                            !.action_status = s]
    /\ action_done_event' = TRUE
    /\ UNCHANGED peerFrame

\* line 183, on the Event of the class
PeerEventWait ==
    /\ peer.pc = "waiting"
    /\ action_done_event
    /\ peer' = [peer EXCEPT !.pc = "map"]
    /\ UNCHANGED <<peerFrame, action_done_event>>

\* lines 185-197
PeerMapStatus ==
    /\ peer.pc = "map"
    /\ peer' = [peer EXCEPT
                  !.pc = "idle",
                  !.outcome = StatusOutcome(peer.action_status, None,
                                            peer.action_result)]
    /\ UNCHANGED <<peerFrame, action_done_event>>

(* ----------------------------- yasmin_demo ---------------------------- *)
bridgeVars == <<ctor, outcomes, timeout, create_goal_handler, result_handler,
                feedback_handler, action_done_event, action_result,
                action_status, goal_handle, pc, execN, outcome,
                send_goal_future, get_result_future,
                submitted, cb_raised, set_count, fb_calls, fb_msgs,
                fb_blackboard, unlocked_writes, cancels_sent, cancel_errors,
                early_cancel>>

\* main, lines 73-90: the outcomes of the machine and the transitions given
\* to add_state
SmOutcomes == {"outcome4"}
StateOutcomes ==
    [FOO |-> {"outcome1", "outcome2"}, BAR |-> {"outcome3"}]
Transitions ==
    [FOO |-> [outcome1 |-> "BAR", outcome2 |-> "outcome4"],
     BAR |-> [outcome3 |-> "FOO"]]
\* the first state added is where a run starts
StartState == "FOO"

\* FooState.execute compares the counter with this (line 40)
FooLimit == 3

\* line 42: f"Counter: {self.counter}"
CounterStr(c) == "Counter: " \o ToString(c)

\* main, lines 73-90: FooState() and BarState() are constructed (counter = 0)
\* and registered
DemoBuild ==
    /\ program = "yasmin_demo"
    /\ sm_pc = "new"
    /\ counter' = 0
    /\ sm_pc' = "ready"
    /\ UNCHANGED <<program, peer, bridgeVars, sm_current,
                   sm_last, sm_outcome, sm_runs, blackboard, trace, bar_log,
                   foo_calls>>

\* line 97, sm(): a run starts at the start state with a fresh blackboard
SmCall ==
    /\ sm_pc \in {"ready", "done"}
    /\ sm_runs < MaxRuns
    /\ sm_runs' = sm_runs + 1
    /\ sm_current' = StartState
    /\ blackboard' = [k \in {} |-> Unset]
    /\ trace' = <<>>
    /\ bar_log' = <<>>
    /\ sm_last' = NoOutcome
    /\ sm_outcome' = NoOutcome
    /\ sm_pc' = "execute"
    /\ UNCHANGED <<program, peer, bridgeVars, counter,
                   foo_calls>>

\* FooState.execute writing the counter's value from before the increment
FooExecute_WritesOld ==
    /\ sm_pc = "execute"
    /\ sm_current = "FOO"
    /\ trace' = Append(trace, "FOO")
    /\ IF counter < FooLimit
         THEN /\ counter' = counter + 1
              /\ blackboard' =
                    [k \in DOMAIN blackboard \cup {"foo_str"} |->
                        IF k = "foo_str" THEN CounterStr(counter)
                                         ELSE blackboard[k]]
              /\ sm_last' = "outcome1"
         ELSE /\ sm_last' = "outcome2"
              /\ UNCHANGED <<counter, blackboard>>
    /\ sm_pc' = "transition"
    /\ foo_calls' = foo_calls + 1
    /\ UNCHANGED <<program, peer, bridgeVars, sm_current,
                   sm_outcome, sm_runs, bar_log>>

\* FooState.execute resetting the counter when it returns outcome2
FooExecute_Resets ==
    /\ sm_pc = "execute"
    /\ sm_current = "FOO"
    /\ trace' = Append(trace, "FOO")
    /\ IF counter < FooLimit
         THEN /\ counter' = counter + 1
              /\ blackboard' =
                    [k \in DOMAIN blackboard \cup {"foo_str"} |->
                        IF k = "foo_str" THEN CounterStr(counter + 1)
                                         ELSE blackboard[k]]
              /\ sm_last' = "outcome1"
         ELSE /\ sm_last' = "outcome2"
              /\ counter' = 0
              /\ blackboard' = blackboard
    /\ sm_pc' = "transition"
    /\ foo_calls' = foo_calls + 1
    /\ UNCHANGED <<program, peer, bridgeVars, sm_current,
                   sm_outcome, sm_runs, bar_log>>

\* FooState.execute with "<=" in place of "<"
FooExecute_OffByOne ==
    /\ sm_pc = "execute"
    /\ sm_current = "FOO"
    /\ trace' = Append(trace, "FOO")
    /\ IF counter <= FooLimit
         THEN /\ counter' = counter + 1
              /\ blackboard' =
                    [k \in DOMAIN blackboard \cup {"foo_str"} |->
                        IF k = "foo_str" THEN CounterStr(counter + 1)
                                         ELSE blackboard[k]]
              /\ sm_last' = "outcome1"
         ELSE /\ sm_last' = "outcome2"
              /\ UNCHANGED <<counter, blackboard>>
    /\ sm_pc' = "transition"
    /\ foo_calls' = foo_calls + 1
    /\ UNCHANGED <<program, peer, bridgeVars, sm_current,
                   sm_outcome, sm_runs, bar_log>>

\* FooState.execute, lines 36-45
FooExecute ==
    /\ sm_pc = "execute"
    /\ sm_current = "FOO"
    /\ trace' = Append(trace, "FOO")
    /\ IF counter < FooLimit
         THEN /\ counter' = counter + 1
              /\ blackboard' =
                    [k \in DOMAIN blackboard \cup {"foo_str"} |->
                        IF k = "foo_str" THEN CounterStr(counter + 1)
                                         ELSE blackboard[k]]
              /\ sm_last' = "outcome1"
         ELSE /\ sm_last' = "outcome2"
              /\ UNCHANGED <<counter, blackboard>>
    /\ sm_pc' = "transition"
    /\ foo_calls' = foo_calls + 1
    /\ UNCHANGED <<program, peer, bridgeVars, sm_current,
                   sm_outcome, sm_runs, bar_log>>

\* BarState.execute, lines 53-58: reading a missing key raises
BarExecute ==
    /\ sm_pc = "execute"
    /\ sm_current = "BAR"
    /\ trace' = Append(trace, "BAR")
    /\ IF "foo_str" \in DOMAIN blackboard
         THEN /\ bar_log' = Append(bar_log, blackboard["foo_str"])
              /\ sm_last' = "outcome3"
              /\ sm_pc' = "transition"
         ELSE /\ sm_pc' = "raised"
              /\ UNCHANGED <<bar_log, sm_last>>
    /\ UNCHANGED <<program, peer, bridgeVars, sm_current,
                   sm_outcome, sm_runs, counter, blackboard, foo_calls>>

\* The machine's loop after a state returned: the outcome must be one the
\* state declared; its target is either an outcome of the machine, which ends
\* the run, or the next state.
SmTransition ==
    /\ sm_pc = "transition"
    /\ IF sm_last \notin StateOutcomes[sm_current]
         THEN /\ sm_pc' = "raised"
              /\ UNCHANGED <<sm_current, sm_outcome>>
         ELSE LET target == Transitions[sm_current][sm_last] IN
              IF target \in SmOutcomes
                THEN /\ sm_outcome' = target
                     /\ sm_pc' = "done"
                     /\ sm_current' = None
                ELSE /\ sm_current' = target
                     /\ sm_pc' = "execute"
                     /\ sm_outcome' = sm_outcome
    /\ UNCHANGED <<program, peer, bridgeVars, sm_last,
                   sm_runs, counter, blackboard, trace, bar_log, foo_calls>>

(* ------------------------------- Next ---------------------------------- *)
Next ==
    \/ \E t \in Timeouts, extra \in ExtraOutcomes, cgh \in GoalHandlers,
          rh \in ResultHandlers, fh \in FeedbackHandlers :
            Construct(t, extra, cgh, rh, fh)
    \/ ExecuteCall
    \/ \E b \in BOOLEAN : WaitForServer(b)
    \/ ClearEvent
    \/ SendGoal
    \/ EventWait
    \/ MapStatus
    \/ \E r \in GoalResponses : TransportGoalResponse(r)
    \/ GoalResponseCallback
    \/ \E s \in GoalStatus \cup {"exception"} : TransportResult(s)
    \/ GetResultCallback
    \/ FeedbackCallback
    \/ CancelState
    \/ DemoBuild
    \/ SmCall
    \/ FooExecute
    \/ BarExecute
    \/ SmTransition

Spec == Init /\ [][Next]_vars

\* Two ActionState objects, both constructed (no timeout, a goal handler, no
\* other handler), each used by its own thread.
TwoInit ==
    /\ program = "two_states"
    /\ peer = PeerInit
    /\ ctor = "ok"
    /\ outcomes = DeclaredOutcomes(NoTimeout, <<>>)
    /\ timeout = NoTimeout
    /\ create_goal_handler = "goal"
    /\ result_handler = None
    /\ feedback_handler = None
    /\ action_done_event = FALSE
    /\ action_result = Unset
    /\ action_status = Unset
    /\ goal_handle = NoHandle
    /\ pc = "idle"
    /\ execN = 0
    /\ outcome = NoOutcome
    /\ send_goal_future = "none"
    /\ get_result_future = "none"
    /\ submitted = FALSE
    /\ cb_raised = FALSE
    /\ set_count = 0
    /\ fb_calls = 0
    /\ fb_msgs = 0
    /\ fb_blackboard = 0
    /\ unlocked_writes = FALSE
    /\ cancels_sent = [h \in 1..MaxExec |-> 0]
    /\ cancel_errors = 0
    /\ early_cancel = FALSE
    /\ sm_pc = "new"
    /\ sm_current = None
    /\ sm_last = NoOutcome
    /\ sm_outcome = NoOutcome
    /\ sm_runs = 0
    /\ counter = 0
    /\ blackboard = [k \in {} |-> Unset]
    /\ trace = <<>>
    /\ bar_log = <<>>
    /\ foo_calls = 0

TwoNext ==
    \/ ExecuteCall
    \/ \E b \in BOOLEAN : WaitForServer(b)
    \/ ClearEvent
    \/ SendGoal
    \/ EventWait
    \/ MapStatus
    \/ \E r \in GoalResponses : TransportGoalResponse(r)
    \/ GoalResponseCallback
    \/ \E s \in GoalStatus \cup {"exception"} : TransportResult(s)
    \/ GetResultCallback
    \/ PeerExecuteCall
    \/ PeerClearEvent
    \/ PeerSendGoal
    \/ PeerGoalResponseCallback
    \/ \E s \in PeerStatuses : PeerGetResultCallback(s)
    \/ PeerEventWait
    \/ PeerMapStatus

TwoSpec == TwoInit /\ [][TwoNext]_vars

\* The executor runs the done-callback of a completed future, and the
\* executing thread goes on once its wait is over; main() builds the demo
\* machine, runs it, and the machine keeps stepping.  Nothing is assumed of
\* the action server or of the callers of cancel_state().
Fairness ==
    /\ WF_vars(GetResultCallback)
    /\ WF_vars(EventWait)
    /\ WF_vars(MapStatus)
    /\ WF_vars(DemoBuild)
    /\ WF_vars(SmCall)
    /\ WF_vars(FooExecute)
    /\ WF_vars(BarExecute)
    /\ WF_vars(SmTransition)

LiveSpec == Spec /\ Fairness

(* ------------------------------ claims --------------------------------- *)
\* a step that is one cancel_state() call
CancelStep == CancelCalls' = CancelCalls + 1

\* the handle of the current call's goal is recorded and its result callback
\* has not fired
HandleRecorded ==
    /\ pc = "waiting"
    /\ goal_handle = execN
    /\ get_result_future \in {"pending"} \cup GoalStatus \cup {"exception"}

\* the result callback of the current call's goal has fired and set the event
Completed ==
    /\ get_result_future = "handled"
    /\ ~cb_raised
    /\ action_done_event

\* C1: a cancel_state() that arrives between send_goal_async and the
\* recording of the goal handle is not lost: once the goal is accepted and
\* the handle of that submission is recorded, a cancel request has been
\* forwarded for it.
C1_NoLostCancel ==
    (early_cancel /\ send_goal_future = "accepted" /\ goal_handle = execN)
        => cancels_sent[execN] >= 1

\* C2: whenever a done-callback of the submission has failed, the completion
\* signal is set with a status that execute maps to ABORT, so that the
\* thread in _action_done_event.wait() resumes.
C2_FailureStillSignals ==
    cb_raised =>
        /\ action_done_event
        /\ StatusOutcome(action_status, result_handler, action_result) = ABORT

\* C3: a cancel_state() call made while the handle of the current goal is
\* recorded and its result callback has not fired forwards exactly one cancel
\* request, for that handle, and raises nothing; and when after one such
\* call the transport completes the result future with STATUS_CANCELED,
\* execute eventually returns CANCEL.
C3_ForwardedOnce ==
    (CancelStep /\ HandleRecorded) =>
        /\ cancels_sent' = [cancels_sent EXCEPT ![execN] = @ + 1]
        /\ cancel_errors' = cancel_errors

C3_CancelAfterAcceptance ==
    /\ [][C3_ForwardedOnce]_vars
    /\ (HandleRecorded /\ cancels_sent[execN] = 1
            /\ get_result_future = STATUS_CANCELED)
         ~> (pc = "idle" /\ outcome = CANCEL)

C3_Witness ==
    /\ HandleRecorded
    /\ cancels_sent[execN] = 1
    /\ get_result_future = STATUS_CANCELED

\* C4 as stated: execute returns TIMEOUT only when nothing was submitted.
C4_TimeoutOnlyUnsubmitted ==
    (pc = "idle" /\ outcome = TIMEOUT) => ~submitted

\* C4, amended: giving up on the server returns TIMEOUT and touches neither
\* the transport nor the handle, result, status or completion signal;
\* execute leaves its wait only when the completion signal is set; and after
\* a submission TIMEOUT can only be the value of the user's result handler
\* for a SUCCEEDED goal.
C4_GiveUpStep ==
    (pc = "wait_for_server" /\ pc' = "idle") =>
        /\ outcome' = TIMEOUT
        /\ ~submitted'
        /\ send_goal_future' = "none"
        /\ UNCHANGED <<sharedVars, transportVars>>

C4_WaitStep ==
    (pc = "waiting" /\ pc' # "waiting") => action_done_event

C4_TimeoutAfterSubmit ==
    (pc = "idle" /\ outcome = TIMEOUT /\ submitted) =>
        /\ action_status = STATUS_SUCCEEDED
        /\ result_handler # None
        /\ ApplyResultHandler(result_handler, action_result) = TIMEOUT

C4_Timeout ==
    /\ [][C4_GiveUpStep /\ C4_WaitStep]_vars
    /\ []C4_TimeoutAfterSubmit

C4_Witness ==
    /\ pc = "idle"
    /\ outcome = TIMEOUT
    /\ ~submitted
    /\ execN = 2
    /\ goal_handle = 1

\* C5: the step that ends execute after the wait returns CANCEL for
\* CANCELED, ABORT for ABORTED, for SUCCEEDED the result handler's value or
\* SUCCEED when there is no handler, and ABORT for any other status.
C5_Expected ==
    IF action_status = STATUS_CANCELED THEN CANCEL
    ELSE IF action_status = STATUS_ABORTED THEN ABORT
    ELSE IF action_status = STATUS_SUCCEEDED
      THEN (IF result_handler = None
              THEN SUCCEED
              ELSE ApplyResultHandler(result_handler, action_result))
    ELSE ABORT

C5_StatusMapping ==
    [][(pc = "map" /\ pc' = "idle" /\ action_status \in GoalStatus)
          => outcome' = C5_Expected]_vars

C5_Witness ==
    /\ pc = "idle"
    /\ submitted
    /\ action_status = STATUS_UNKNOWN
    /\ outcome = ABORT

\* C6: whatever execute returns is one of the declared outcomes, for every
\* construction whose result handler (if any) only returns declared tokens.
HandlerDeclared ==
    \/ result_handler = None
    \/ \A r \in ResultPayloads :
          ApplyResultHandler(result_handler, r) \in outcomes

C6_OutcomeDeclared ==
    (pc = "idle" /\ outcome \notin {NoOutcome, Raised} /\ HandlerDeclared)
        => outcome \in outcomes

\* C7: a cancel_state() call made after the result callback has fired and
\* set the completion signal forwards no cancel request and leaves result,
\* status and signal alone.
C7_LateCancelStep ==
    (CancelStep /\ Completed) =>
        /\ cancels_sent' = cancels_sent
        /\ UNCHANGED <<action_result, action_status, action_done_event>>

C7_LateCancelNoOp == [][C7_LateCancelStep]_vars

\* C8: no cancel_state() call raises, and the completion signal is set at
\* most once per execute() call.
C8_CancelIdempotent == cancel_errors = 0 /\ set_count <= 1

\* C9: execute never ends with a raw exception.
C9_NoRawException == outcome # Raised

\* C10: the first run of the demo machine executes FOO,BAR,FOO,BAR,FOO,BAR,
\* FOO, in this order, and ends with outcome4; it does end.
DemoTrace == <<"FOO", "BAR", "FOO", "BAR", "FOO", "BAR", "FOO">>

C10_FirstRun ==
    sm_runs = 1 =>
        /\ sm_pc # "raised"
        /\ Len(trace) <= Len(DemoTrace)
        /\ trace = SubSeq(DemoTrace, 1, Len(trace))
        /\ sm_pc = "done" => (trace = DemoTrace /\ sm_outcome = "outcome4")

C10_DemoRun ==
    /\ []C10_FirstRun
    /\ (program = "yasmin_demo" /\ sm_runs = 0)
          ~> (sm_runs = 1 /\ sm_pc = "done")

C10_Witness ==
    /\ sm_runs = 1
    /\ sm_pc = "done"
    /\ Len(trace) = 7
    /\ counter = 3

\* C11: whenever BAR is about to execute, foo_str is on the blackboard and
\* holds "Counter: k", k being the number of FOO executions so far; BAR
\* never reads a missing key, and what it logs is "Counter: 1", "Counter:
\* 2", "Counter: 3", in this order.
CounterText == <<"Counter: 1", "Counter: 2", "Counter: 3">>

C11_ReadYourWrites ==
    /\ sm_pc # "raised"
    /\ (sm_pc = "execute" /\ sm_current = "BAR") =>
          /\ "foo_str" \in DOMAIN blackboard
          /\ foo_calls \in 1..Len(CounterText)
          /\ blackboard["foo_str"] = CounterText[foo_calls]
    /\ Len(bar_log) <= Len(CounterText)
    /\ bar_log = SubSeq(CounterText, 1, Len(bar_log))

C11_Witness ==
    /\ sm_current = "BAR"
    /\ sm_pc = "transition"
    /\ bar_log = CounterText

\* C12: FooState's counter never decreases and never exceeds 3; an
\* invocation of FooState returns outcome1 exactly when it is one of the
\* first three since construction; a second run of the same machine
\* executes FOO once, BAR never, and returns outcome4.
C12_FooStep ==
    /\ counter' >= counter
    /\ (foo_calls' = foo_calls + 1) =>
          (sm_last' = "outcome1" <=> foo_calls' <= 3)

C12_SecondRun ==
    /\ counter <= 3
    /\ sm_runs = 2 =>
          /\ "BAR" \notin Range(trace)
          /\ Len(trace) <= 1
          /\ sm_pc = "done" => (trace = <<"FOO">> /\ sm_outcome = "outcome4")

C12_Statefulness == [][C12_FooStep]_vars /\ []C12_SecondRun

C12_Witness ==
    /\ sm_runs = 2
    /\ sm_pc = "done"
    /\ foo_calls = 5
    /\ counter = 3

\* C13: an ActionState constructed without a create_goal_handler is never
\* usable: __init__ raised, no outcome set was established, and no execute()
\* call, no submission and no cancel_state() goes through it.
C13_NoGoalHandler ==
    (ctor # "new" /\ create_goal_handler = None) =>
        /\ ctor = "raised"
        /\ outcomes = {}
        /\ execN = 0
        /\ pc = "idle"
        /\ ~submitted
        /\ send_goal_future = "none"
        /\ CancelCalls = 0

C13_Witness ==
    /\ ctor = "raised"
    /\ create_goal_handler = None
    /\ timeout = 2

\* C16: a cancel_state() issued while the N-th execute() call is in progress
\* is never forwarded to the goal handle recorded by an earlier call.
C16_CancelDuringCall == CancelStep /\ pc # "idle"

C16_HandlePerCall ==
    [][C16_CancelDuringCall =>
          \A h \in 1..MaxExec :
              h < execN => cancels_sent'[h] = cancels_sent[h]]_vars

\* C18: a feedback delivery invokes the user's feedback function exactly
\* once, with the blackboard of the current execute() call, when one was
\* given, and does nothing otherwise; in both cases the goal handle, the
\* result, the status, the completion signal, the futures, the position of
\* execute() and the cancellations are left as they were.
C18_FeedbackStep ==
    (fb_msgs' = fb_msgs + 1) =>
        /\ IF feedback_handler # None
             THEN fb_calls' = fb_calls + 1 /\ fb_blackboard' = execN
             ELSE fb_calls' = fb_calls /\ fb_blackboard' = fb_blackboard
        /\ UNCHANGED <<goal_handle, action_result, action_status,
                       action_done_event, set_count>>
        /\ UNCHANGED <<pc, execN, outcome, transportVars, cancelVars>>

C18_FeedbackOnlyForwards == [][C18_FeedbackStep]_vars

C18_Witness ==
    /\ fb_msgs = 1
    /\ feedback_handler # None
    /\ fb_calls = 1
    /\ fb_blackboard = 2
    /\ pc = "waiting"

\* C19 as stated: execute returns CANCEL only if the transport reported
\* CANCELED.
C19_CancelOnlyIfCanceled ==
    (pc = "idle" /\ outcome = CANCEL) => action_status = STATUS_CANCELED

\* C19, amended: cancel_state() leaves the result, the status, the
\* completion signal, the futures and the position of execute() unchanged;
\* after a cancel request a SUCCEEDED goal still yields the result handler's
\* value (SUCCEED without a handler) and an ABORTED goal ABORT; and execute
\* returns CANCEL only for a CANCELED goal or, for a SUCCEEDED one, when the
\* result handler itself returns CANCEL.
C19_CancelStep ==
    CancelStep =>
        /\ UNCHANGED <<action_result, action_status, action_done_event,
                       set_count>>
        /\ UNCHANGED <<pc, execN, outcome, transportVars, submitted>>

C19_ReturnStep ==
    (pc = "map" /\ pc' = "idle" /\ CancelCalls > 0) =>
        /\ action_status = STATUS_ABORTED => outcome' = ABORT
        /\ (action_status = STATUS_SUCCEEDED /\ result_handler = None) =>
              outcome' = SUCCEED
        /\ (action_status = STATUS_SUCCEEDED /\ result_handler # None) =>
              outcome' = ApplyResultHandler(result_handler, action_result)

C19_CancelOutcome ==
    (pc = "idle" /\ outcome = CANCEL) =>
        \/ action_status = STATUS_CANCELED
        \/ /\ action_status = STATUS_SUCCEEDED
           /\ result_handler # None
           /\ ApplyResultHandler(result_handler, action_result) = CANCEL

C19_CancelNeverCompletes ==
    /\ [][C19_CancelStep /\ C19_ReturnStep]_vars
    /\ []C19_CancelOutcome

C19_Witness ==
    /\ pc = "idle"
    /\ execN >= 1
    /\ goal_handle = execN
    /\ cancels_sent[execN] >= 1
    /\ action_status = STATUS_SUCCEEDED
    /\ result_handler = None
    /\ outcome = SUCCEED

\* C17: the result callback stores the result and the status while holding
\* the handle lock, as the acceptance callback does for the handle and the
\* cancellation path for its read: no store happens without the lock.
C17_WritesUnderLock == ~unlocked_writes

\* C14: whenever execute() has left its wait, the result callback of the
\* goal this very call submitted has fired, and the result it is about to
\* map is the one that callback stored (goal execN's), not an earlier one.
C14_CurrentCallResult ==
    pc = "map" =>
        /\ get_result_future = "handled"
        /\ ~cb_raised
        /\ action_result = execN
        /\ action_status \in GoalStatus

\* C15: with two ActionState objects executing concurrently, neither leaves
\* its wait before its own result callback has fired, and a completion
\* signalled by an object's own result callback stays signalled until that
\* object's wait has seen it.
C15_OwnSignal ==
    /\ pc = "map" => get_result_future = "handled"
    /\ peer.pc = "map" => peer.get_result_future = "handled"
    /\ (pc = "waiting" /\ get_result_future = "handled" /\ ~cb_raised) =>
          action_done_event
    /\ (peer.pc = "waiting" /\ peer.get_result_future = "handled") =>
          action_done_event

====
